---------------------------- MODULE Spec2Model ----------------------------
(***************************************************************************)
(* NexusClip Linux companion daemon (linux_companion/nexusclip_daemon.py). *)
(*                                                                         *)
(* A datagram is a sequence of bytes (0..255); a Python str is a sequence  *)
(* of code points.  The three daemon threads (_listen_loop,                *)
(* _clipboard_monitor_loop, _heartbeat_loop) are modelled as three         *)
(* processes per node, each with its own program counter; one action is    *)
(* one atomic step of one thread.                                          *)
(***************************************************************************)
EXTENDS Integers, Sequences, FiniteSets, TLC

(***************************************************************************)
(* Wire constants (module level of the daemon), as ASCII code points.      *)
(***************************************************************************)
DISCOVERY_MESSAGE ==
    <<78, 69, 88, 85, 83, 67, 76, 73, 80, 95, 68, 73, 83, 67, 79, 86, 69, 82>>
CLIPBOARD_PREFIX ==
    <<78, 69, 88, 85, 83, 67, 76, 73, 80, 95, 67, 76, 73, 80, 58>>
ACK_PREFIX ==
    <<78, 69, 88, 85, 83, 67, 76, 73, 80, 95, 65, 67, 75, 58>>
DEVICE_PREFIX ==
    <<78, 69, 88, 85, 83, 67, 76, 73, 80, 95, 68, 69, 86, 73, 67, 69, 58>>
HEARTBEAT_MESSAGE ==
    <<78, 69, 88, 85, 83, 67, 76, 73, 80, 95, 72, 69, 65, 82, 84, 66, 69, 65, 84>>
\* "RECEIVED", the status token of the acknowledgment _handle_clipboard sends
AckReceived ==
    <<82, 69, 67, 69, 73, 86, 69, 68>>
\* "Linux", the platform _respond_to_discovery announces
PlatformLinux ==
    <<76, 105, 110, 117, 120>>
\* '|', the separator of a device announcement
Pipe ==
    <<124>>

(***************************************************************************)
(* Results of operations that may raise: ok = FALSE stands for the raised  *)
(* exception.                                                              *)
(***************************************************************************)
Ok(v) ==
    [ok |-> TRUE, val |-> v]
Raised ==
    [ok |-> FALSE, val |-> <<>>]

(***************************************************************************)
(* bytes.decode('utf-8'), strict: overlong forms, surrogates and code      *)
(* points above U+10FFFF raise UnicodeDecodeError.                         *)
(***************************************************************************)
IsCont(b) ==
    b >= 128 /\ b <= 191

RECURSIVE Utf8DecodeFrom(_, _, _)
Utf8DecodeFrom(b, i, out) ==
    IF i > Len(b) THEN Ok(out)
    ELSE LET b0 == b[i]
             has(k) == i + k <= Len(b)
         IN  IF b0 <= 127
                 THEN Utf8DecodeFrom(b, i + 1, Append(out, b0))
             ELSE IF b0 >= 194 /\ b0 <= 223
                 THEN IF has(1) /\ IsCont(b[i + 1])
                      THEN Utf8DecodeFrom(b, i + 2,
                               Append(out, (b0 - 192) * 64 + (b[i + 1] - 128)))
                      ELSE Raised
             ELSE IF b0 >= 224 /\ b0 <= 239
                 THEN IF /\ has(2)
                         /\ IsCont(b[i + 1])
                         /\ IsCont(b[i + 2])
                         /\ (b0 = 224 => b[i + 1] >= 160)
                         /\ (b0 = 237 => b[i + 1] <= 159)
                      THEN Utf8DecodeFrom(b, i + 3,
                               Append(out, (b0 - 224) * 4096
                                           + (b[i + 1] - 128) * 64
                                           + (b[i + 2] - 128)))
                      ELSE Raised
             ELSE IF b0 >= 240 /\ b0 <= 244
                 THEN IF /\ has(3)
                         /\ IsCont(b[i + 1])
                         /\ IsCont(b[i + 2])
                         /\ IsCont(b[i + 3])
                         /\ (b0 = 240 => b[i + 1] >= 144)
                         /\ (b0 = 244 => b[i + 1] <= 143)
                      THEN Utf8DecodeFrom(b, i + 4,
                               Append(out, (b0 - 240) * 262144
                                           + (b[i + 1] - 128) * 4096
                                           + (b[i + 2] - 128) * 64
                                           + (b[i + 3] - 128)))
                      ELSE Raised
             ELSE Raised

Utf8Decode(b) ==
    Utf8DecodeFrom(b, 1, <<>>)

(***************************************************************************)
(* str.encode('utf-8') for a str of Unicode scalar values.                 *)
(***************************************************************************)
Utf8EncodeChar(c) ==
    IF c <= 127 THEN <<c>>
    ELSE IF c <= 2047 THEN <<192 + (c \div 64), 128 + (c % 64)>>
    ELSE IF c <= 65535
        THEN <<224 + (c \div 4096), 128 + ((c \div 64) % 64), 128 + (c % 64)>>
    ELSE <<240 + (c \div 262144), 128 + ((c \div 4096) % 64),
           128 + ((c \div 64) % 64), 128 + (c % 64)>>

RECURSIVE Utf8Encode(_)
Utf8Encode(s) ==
    IF s = <<>> THEN <<>>
    ELSE Utf8EncodeChar(Head(s)) \o Utf8Encode(Tail(s))

(***************************************************************************)
(* base64.b64encode: three bytes to four characters of the standard        *)
(* alphabet, '=' padding on the last group.                                *)
(***************************************************************************)
B64Char(v) ==
    IF v <= 25 THEN 65 + v
    ELSE IF v <= 51 THEN 97 + (v - 26)
    ELSE IF v <= 61 THEN 48 + (v - 52)
    ELSE IF v = 62 THEN 43
    ELSE 47

RECURSIVE B64Encode(_)
B64Encode(b) ==
    IF Len(b) = 0 THEN <<>>
    ELSE IF Len(b) = 1
        THEN <<B64Char(b[1] \div 4), B64Char((b[1] % 4) * 16), 61, 61>>
    ELSE IF Len(b) = 2
        THEN <<B64Char(b[1] \div 4),
               B64Char((b[1] % 4) * 16 + (b[2] \div 16)),
               B64Char((b[2] % 16) * 4), 61>>
    ELSE <<B64Char(b[1] \div 4),
           B64Char((b[1] % 4) * 16 + (b[2] \div 16)),
           B64Char((b[2] % 16) * 4 + (b[3] \div 64)),
           B64Char(b[3] % 64)>>
         \o B64Encode(SubSeq(b, 4, Len(b)))

(***************************************************************************)
(* base64.b64decode(str) in its default, non-validating mode: a non-ASCII  *)
(* character raises ValueError; characters outside the alphabet are        *)
(* skipped; a complete pad sequence ends the data (what follows is         *)
(* ignored); data that ends inside a quad raises binascii.Error.           *)
(***************************************************************************)
B64Value(c) ==
    IF c >= 65 /\ c <= 90 THEN c - 65
    ELSE IF c >= 97 /\ c <= 122 THEN c - 71
    ELSE IF c >= 48 /\ c <= 57 THEN c + 4
    ELSE IF c = 43 THEN 62
    ELSE IF c = 47 THEN 63
    ELSE 64

RECURSIVE a2b_base64(_, _, _, _, _, _)
a2b_base64(s, i, quad, left, pads, out) ==
    IF i > Len(s) THEN (IF quad # 0 THEN Raised ELSE Ok(out))
    ELSE LET c == s[i]
             d == B64Value(c)
         IN  IF c = 61
                 THEN IF quad >= 2 /\ quad + pads + 1 >= 4
                      THEN Ok(out)
                      ELSE a2b_base64(s, i + 1, quad, left,
                                      IF quad >= 2 THEN pads + 1 ELSE pads, out)
             ELSE IF d = 64
                 THEN a2b_base64(s, i + 1, quad, left, pads, out)
             ELSE IF quad = 0
                 THEN a2b_base64(s, i + 1, 1, d, 0, out)
             ELSE IF quad = 1
                 THEN a2b_base64(s, i + 1, 2, d % 16, 0,
                                 Append(out, left * 4 + (d \div 16)))
             ELSE IF quad = 2
                 THEN a2b_base64(s, i + 1, 3, d % 4, 0,
                                 Append(out, left * 16 + (d \div 4)))
             ELSE a2b_base64(s, i + 1, 0, 0, 0, Append(out, left * 64 + d))

B64Decode(s) ==
    IF \E i \in 1..Len(s) : s[i] > 127 THEN Raised
    ELSE a2b_base64(s, 1, 0, 0, 0, <<>>)

(***************************************************************************)
(* str helpers: startswith, slicing off a prefix, split on a one-character *)
(* separator (every occurrence, as str.split(sep) does).                   *)
(***************************************************************************)
StartsWith(s, p) ==
    Len(s) >= Len(p) /\ SubSeq(s, 1, Len(p)) = p

After(s, p) ==
    SubSeq(s, Len(p) + 1, Len(s))

RECURSIVE SplitFrom(_, _, _, _)
SplitFrom(s, sep, i, cur) ==
    IF i > Len(s) THEN <<cur>>
    ELSE IF s[i] = sep THEN <<cur>> \o SplitFrom(s, sep, i + 1, <<>>)
    ELSE SplitFrom(s, sep, i + 1, Append(cur, s[i]))

Split(s, sep) ==
    SplitFrom(s, sep, 1, <<>>)

(***************************************************************************)
(* Bounds of the model.                                                    *)
(***************************************************************************)
\* the clock stops at MaxTime unless a thread is asleep waiting for it
MaxTime ==
    150
\* the same where the daemon is stopped
StopTime ==
    30
\* the clock advances in steps of TickStep
TickStep ==
    30

(***************************************************************************)
(* Program constants.                                                      *)
(***************************************************************************)
\* stale_timeout of _cleanup_stale_devices
StaleTimeout ==
    120
\* time.sleep(30) of _heartbeat_loop
HeartbeatInterval ==
    30

(***************************************************************************)
(* The node that runs the daemon (identified by its address), the devices  *)
(* on its segment, the texts the user may put on the local clipboard, and  *)
(* platform.node().                                                        *)
(***************************************************************************)
Nodes ==
    {"A", "B"}
\* the addresses of an Android phone and of a tablet on the segment
Phone ==
    "P"
Tablet ==
    "T"
\* 255.255.255.255, the destination of _broadcast
BroadcastAddr ==
    "*"
\* "", "a", "é"
Texts ==
    {<<>>, <<97>>, <<233>>}
\* platform.node(): "hA" on node A, empty on any other
Hostname(n) ==
    IF n = "A" THEN <<104, 65>> ELSE <<>>

(***************************************************************************)
(* The datagrams the phone may send.                                       *)
(***************************************************************************)
Frame(message) ==
    Utf8Encode(message)

\* what _broadcast_clipboard puts on the wire for a text
ClipMessage(t) ==
    CLIPBOARD_PREFIX \o Utf8Decode(B64Encode(Utf8Encode(t))).val

ClipFrame(t) ==
    Frame(ClipMessage(t))

\* clipboard frames with a body that does not decode: "YQ" (incorrect
\* padding) and "/w==" (the byte FF, which is not UTF-8)
BadClipFrames ==
    {Frame(CLIPBOARD_PREFIX \o <<89, 81>>),
     Frame(CLIPBOARD_PREFIX \o <<47, 119, 61, 61>>)}

ClipFrames ==
    {ClipFrame(t) : t \in Texts} \cup BadClipFrames

\* device announcements: "L|g", "L|h|x" (a name with a '|'), "W" (no '|')
DeviceFrames ==
    {Frame(DEVICE_PREFIX \o <<76, 124, 103>>),
     Frame(DEVICE_PREFIX \o <<76, 124, 104, 124, 120>>),
     Frame(DEVICE_PREFIX \o <<87>>)}

AckFrame ==
    Frame(ACK_PREFIX \o AckReceived)

\* an acknowledgement with another token, "X"
OtherAckFrame ==
    Frame(ACK_PREFIX \o <<88>>)

\* a datagram that is not UTF-8
BadFrame ==
    <<255>>

\* the two literals, each also with a character after it
LiteralFrames ==
    {Frame(DISCOVERY_MESSAGE),
     Frame(HEARTBEAT_MESSAGE),
     Frame(DISCOVERY_MESSAGE \o <<88>>),
     Frame(HEARTBEAT_MESSAGE \o <<88>>)}

PhoneFrames ==
    ClipFrames \cup DeviceFrames \cup LiteralFrames
        \cup {AckFrame, OtherAckFrame, BadFrame}

\* what the tablet sends: the announcement "L|g" and heartbeats
TabletFrames ==
    {Frame(DEVICE_PREFIX \o <<76, 124, 103>>), Frame(HEARTBEAT_MESSAGE)}

(***************************************************************************)
(* The conversions the listen thread applies to a datagram, tabulated for  *)
(* the phone's frames (a node's own frames are among them) and computed    *)
(* for any other.                                                          *)
(***************************************************************************)
Utf8Table ==
    [d \in PhoneFrames |-> Utf8Decode(d)]

\* data.decode('utf-8') in _listen_loop
Received(data) ==
    IF data \in DOMAIN Utf8Table THEN Utf8Table[data] ELSE Utf8Decode(data)

PhoneMessages ==
    {Utf8Table[d].val : d \in {f \in PhoneFrames : Utf8Table[f].ok}}

\* a dispatch that would test the Discover literal as a prefix
MessageKindByPrefix(message) ==
    IF StartsWith(message, DISCOVERY_MESSAGE) THEN "discover"
    ELSE IF StartsWith(message, DEVICE_PREFIX) THEN "device"
    ELSE IF StartsWith(message, CLIPBOARD_PREFIX) THEN "clipboard"
    ELSE IF StartsWith(message, ACK_PREFIX) THEN "ack"
    ELSE IF message = HEARTBEAT_MESSAGE THEN "heartbeat"
    ELSE "unknown"

\* the branch of _handle_message a message takes, in the order of its tests
MessageKind(message) ==
    IF message = DISCOVERY_MESSAGE THEN "discover"
    ELSE IF StartsWith(message, DEVICE_PREFIX) THEN "device"
    ELSE IF StartsWith(message, CLIPBOARD_PREFIX) THEN "clipboard"
    ELSE IF StartsWith(message, ACK_PREFIX) THEN "ack"
    ELSE IF message = HEARTBEAT_MESSAGE THEN "heartbeat"
    ELSE "unknown"

KindTable ==
    [m \in PhoneMessages |-> MessageKind(m)]

KindOf(message) ==
    IF message \in DOMAIN KindTable THEN KindTable[message]
    ELSE MessageKind(message)

\* base64.b64decode(message[len(CLIPBOARD_PREFIX):]).decode('utf-8')
DecodeContent(message) ==
    LET raw == B64Decode(After(message, CLIPBOARD_PREFIX))
    IN  IF raw.ok THEN Utf8Decode(raw.val) ELSE Raised

ContentTable ==
    [m \in {x \in PhoneMessages : KindTable[x] = "clipboard"} |->
        DecodeContent(m)]

Content(message) ==
    IF message \in DOMAIN ContentTable THEN ContentTable[message]
    ELSE DecodeContent(message)

\* message[len(DEVICE_PREFIX):].split('|')
DeviceParts(message) ==
    Split(After(message, DEVICE_PREFIX), Pipe[1])

PartsTable ==
    [m \in {x \in PhoneMessages : KindTable[x] = "device"} |-> DeviceParts(m)]

Parts(message) ==
    IF message \in DOMAIN PartsTable THEN PartsTable[message]
    ELSE DeviceParts(message)

VARIABLES
    running,             \* self.running
    sock,                \* self.socket: "none" (not created), "open", "closed"
    verbose,             \* self.verbose
    last_clipboard,      \* self.last_clipboard, the snapshot
    clipboard_lock,      \* holder of self.clipboard_lock: "free", "listen", "monitor"
    discovered_devices,  \* self.discovered_devices: address -> Device
    clip,                \* the OS clipboard behind pyperclip
    now,                 \* datetime.now()
    net,                 \* datagrams in flight to a bound socket
    listenPc,            \* position of the _listen_loop thread
    rx,                  \* sender and content while _handle_clipboard holds them
    monitorPc,           \* position of the _clipboard_monitor_loop thread
    current,             \* its local current
    hbPc,                \* position of the _heartbeat_loop thread
    hbNow,               \* local now of _cleanup_stale_devices
    hbUsed,              \* size of the table when its iteration began
    stale_devices,       \* local stale_devices of _cleanup_stale_devices
    hbWake,              \* end of the running time.sleep(30)
    sent,                \* datagrams handed to sendto() by the last step
    printed,             \* lines printed by the last step
    handled,             \* history: the datagram dispatched by the last step
    copied,              \* history: whether the user has copied a text
    hbSentAt,            \* history: when the last Heartbeat was broadcast
    lastText,            \* history: the text last broadcast or written
    pending,             \* history: the local text not yet broadcast
    applyHist,           \* history: consecutive clipboard frames handled
    pollHist             \* history: consecutive poll iterations

vars ==
    <<running, sock, verbose, last_clipboard, clipboard_lock,
      discovered_devices, clip, now, net, listenPc, rx, monitorPc, current,
      hbPc, hbNow, hbUsed, stale_devices, hbWake, sent, printed, handled,
      copied, hbSentAt, lastText, pending, applyHist, pollHist>>

ctlVars ==
    <<running, sock, verbose>>
clipVars ==
    <<last_clipboard, clipboard_lock, clip>>
listenVars ==
    <<listenPc, rx>>
monitorVars ==
    <<monitorPc, current>>
hbVars ==
    <<hbPc, hbNow, hbUsed, stale_devices, hbWake>>
histVars ==
    <<copied, hbSentAt, lastText, pending, applyHist, pollHist>>

NoDevices ==
    [a \in {} |-> {}]

\* lastText as long as the node has neither broadcast a clipboard payload
\* nor written to the clipboard
NoText ==
    [some |-> FALSE, text |-> <<>>]

\* handled when the last step dispatched no datagram
NoneHandled ==
    [node |-> "", sender |-> "", kind |-> "none"]

\* rx when _handle_clipboard is not running
NoFrame ==
    [sender |-> "", content |-> <<>>]

\* applyHist: stage "first" once a clipboard frame from sender carrying
\* content was applied (written and acknowledged), "second" from the
\* receipt of the same content from the same sender as the very next
\* frame, "none" otherwise
NoApply ==
    [stage |-> "none", sender |-> "", content |-> <<>>]

\* pollHist: "checked" once an iteration has compared what it read with
\* the snapshot and no remote text was applied since, "same" when the next
\* iteration has read the same text again, "again" once that iteration
\* has compared it in turn, "none" otherwise

\* state after NexusClipDaemon.__init__ (verbose and the text the OS
\* clipboard holds are fixed when the node starts)
Init ==
    /\ running = [n \in Nodes |-> FALSE]
    /\ sock = [n \in Nodes |-> "none"]
    /\ verbose = [n \in Nodes |-> FALSE]
    /\ last_clipboard = [n \in Nodes |-> <<>>]
    /\ clipboard_lock = [n \in Nodes |-> "free"]
    /\ discovered_devices = [n \in Nodes |-> NoDevices]
    /\ clip = [n \in Nodes |-> <<>>]
    /\ now = 0
    /\ net = {}
    /\ listenPc = [n \in Nodes |-> "init"]
    /\ rx = [n \in Nodes |-> NoFrame]
    /\ monitorPc = [n \in Nodes |-> "init"]
    /\ current = [n \in Nodes |-> <<>>]
    /\ hbPc = [n \in Nodes |-> "init"]
    /\ hbNow = [n \in Nodes |-> 0]
    /\ hbUsed = [n \in Nodes |-> 0]
    /\ stale_devices = [n \in Nodes |-> {}]
    /\ hbWake = [n \in Nodes |-> 0]
    /\ sent = {}
    /\ printed = <<>>
    /\ handled = NoneHandled
    /\ copied = FALSE
    /\ hbSentAt = [n \in Nodes |-> -1]
    /\ lastText = [n \in Nodes |-> NoText]
    /\ pending = [n \in Nodes |-> <<>>]
    /\ applyHist = [n \in Nodes |-> NoApply]
    /\ pollHist = [n \in Nodes |-> "none"]

(***************************************************************************)
(* Output of a step: sendto() and print().                                 *)
(***************************************************************************)
Datagram(n, dst, message) ==
    [src |-> n, dst |-> dst, data |-> Utf8Encode(message)]

\* where the network carries a datagram: to every bound socket on the
\* segment for a broadcast (the sender's own included), to the addressed
\* socket otherwise
Deliveries(d) ==
    {[src |-> d.src, dst |-> m, data |-> d.data] :
        m \in {m \in Nodes : sock[m] = "open"
                             /\ (d.dst = BroadcastAddr \/ d.dst = m)}}

Delivered(sends) ==
    UNION {Deliveries(d) : d \in sends}

\* a printed line: who printed it, which message, and its argument (a peer
\* address, or what raised the logged error)
Line(n, tag, arg) ==
    [node |-> n, tag |-> tag, arg |-> arg]

\* a line printed only "if self.verbose"
Verbose(n, tag, arg) ==
    IF verbose[n] THEN <<Line(n, tag, arg)>> ELSE <<>>

\* sendto() on the socket; a failure (the socket is closed, or the OS
\* refuses: ok = FALSE) is caught and logged when verbose
SendResult(n, dst, message, ok, errtag) ==
    IF sock[n] = "open" /\ ok
    THEN [sends |-> {Datagram(n, dst, message)}, lines |-> <<>>]
    ELSE [sends |-> {}, lines |-> Verbose(n, errtag, "sendto")]

_send_to(n, message, address, ok) ==
    SendResult(n, address, message, ok, "send_error")

_broadcast(n, message, ok) ==
    SendResult(n, BroadcastAddr, message, ok, "broadcast_error")

(***************************************************************************)
(* start() and stop(), run by the controlling thread.                      *)
(***************************************************************************)
\* start(): sets the flag, binds the socket, starts the three threads.
\* v: the verbose argument of the constructor; t: the text the OS
\* clipboard holds when the node starts
Start(n, v, t) ==
    /\ sock[n] = "none"
    /\ running' = [running EXCEPT ![n] = TRUE]
    /\ sock' = [sock EXCEPT ![n] = "open"]
    /\ verbose' = [verbose EXCEPT ![n] = v]
    /\ clip' = [clip EXCEPT ![n] = t]
    /\ pending' = [pending EXCEPT ![n] = t]
    /\ listenPc' = [listenPc EXCEPT ![n] = "top"]
    /\ monitorPc' = [monitorPc EXCEPT ![n] = "top"]
    /\ hbPc' = [hbPc EXCEPT ![n] = "top"]
    /\ handled' = NoneHandled
    /\ sent' = {}
    /\ printed' = <<>>
    /\ UNCHANGED <<last_clipboard, clipboard_lock, discovered_devices, now,
                   net, rx, current, hbNow, hbUsed, stale_devices, hbWake,
                   copied, hbSentAt, lastText, applyHist, pollHist>>

\* stop(), first half: self.running = False
StopFlag(n) ==
    /\ running[n]
    /\ running' = [running EXCEPT ![n] = FALSE]
    /\ handled' = NoneHandled
    /\ sent' = {}
    /\ printed' = <<>>
    /\ UNCHANGED <<sock, verbose, clipVars, discovered_devices, now, net,
                   listenVars, monitorVars, hbVars, histVars>>

\* stop(), second half: self.socket.close(); what is queued on it is gone
StopClose(n) ==
    /\ ~running[n]
    /\ sock[n] = "open"
    /\ sock' = [sock EXCEPT ![n] = "closed"]
    /\ net' = {d \in net : d.dst # n}
    /\ handled' = NoneHandled
    /\ sent' = {}
    /\ printed' = <<>>
    /\ UNCHANGED <<running, verbose, clipVars, discovered_devices, now,
                   listenVars, monitorVars, hbVars, histVars>>

(***************************************************************************)
(* The handlers of _handle_message.  Each yields the new peer table, what  *)
(* it sends and prints, and where the listen thread goes next ("lock":     *)
(* on to the locked part of _handle_clipboard).                            *)
(***************************************************************************)
Effect(devices, sends, lines, next) ==
    [devices |-> devices, sends |-> sends, lines |-> lines, next |-> next]

\* a _respond_to_discovery that would answer with a broadcast
_respond_to_discovery_broadcast(n, sender, ok) ==
    LET device_name == IF Hostname(n) # <<>> THEN Hostname(n) ELSE PlatformLinux
        response == DEVICE_PREFIX \o PlatformLinux \o Pipe \o device_name
        r == _broadcast(n, response, ok)
    IN  Effect(discovered_devices[n], r.sends,
               r.lines \o Verbose(n, "responded", sender), "top")

_respond_to_discovery(n, sender, ok) ==
    LET device_name == IF Hostname(n) # <<>> THEN Hostname(n) ELSE PlatformLinux
        response == DEVICE_PREFIX \o PlatformLinux \o Pipe \o device_name
        r == _send_to(n, response, sender, ok)
    IN  Effect(discovered_devices[n], r.sends,
               r.lines \o Verbose(n, "responded", sender), "top")

_handle_device_response(n, message, sender) ==
    LET parts == Parts(message)
        old == discovered_devices[n]
    IN  IF Len(parts) >= 2
        THEN Effect([a \in DOMAIN old \cup {sender} |->
                        IF a = sender
                        THEN [address |-> sender, platform |-> parts[1],
                              name |-> parts[2], last_seen |-> now]
                        ELSE old[a]],
                    {}, <<Line(n, "discovered", sender)>>, "top")
        ELSE Effect(old, {}, <<>>, "top")

\* a _handle_clipboard that would go on to the locked part whatever the
\* decoding gives
_handle_clipboard_unchecked(n, message, sender) ==
    Effect(discovered_devices[n], {}, <<>>, "lock")

\* the head of _handle_clipboard: the decoding, whose exception is logged
\* by the handler's except
_handle_clipboard(n, message, sender) ==
    IF Content(message).ok
    THEN Effect(discovered_devices[n], {}, <<>>, "lock")
    ELSE Effect(discovered_devices[n], {},
                Verbose(n, "clipboard_error", "decode"), "top")

_handle_ack(n, message, sender) ==
    Effect(discovered_devices[n], {}, Verbose(n, "ack", sender), "top")

\* a _handle_heartbeat that would enter an unknown sender in the table
_handle_heartbeat_upsert(n, sender) ==
    LET old == discovered_devices[n]
    IN  Effect([a \in DOMAIN old \cup {sender} |->
                   IF a = sender
                   THEN [address |-> sender, platform |-> PlatformLinux,
                         name |-> <<>>, last_seen |-> now]
                   ELSE old[a]],
               {}, <<>>, "top")

_handle_heartbeat(n, sender) ==
    LET old == discovered_devices[n]
    IN  IF sender \in DOMAIN old
        THEN Effect([old EXCEPT ![sender].last_seen = now], {}, <<>>, "top")
        ELSE Effect(old, {}, <<>>, "top")

_handle_message(n, message, sender, ok) ==
    LET kind == KindOf(message)
    IN  IF kind = "discover" THEN _respond_to_discovery(n, sender, ok)
        ELSE IF kind = "device" THEN _handle_device_response(n, message, sender)
        ELSE IF kind = "clipboard" THEN _handle_clipboard(n, message, sender)
        ELSE IF kind = "ack" THEN _handle_ack(n, message, sender)
        ELSE IF kind = "heartbeat" THEN _handle_heartbeat(n, sender)
        ELSE Effect(discovered_devices[n], {}, <<>>, "top")

\* one pass of the try block of _listen_loop on a received datagram: a
\* datagram that is not UTF-8 raises, which the loop's except logs
\* "if self.running and self.verbose"
HandleDatagram(n, src, data, ok) ==
    LET m == Received(data)
    IN  IF m.ok
        THEN _handle_message(n, m.val, src, ok)
        ELSE Effect(discovered_devices[n], {},
                    IF running[n] THEN Verbose(n, "listen_error", "decode")
                    ELSE <<>>,
                    "top")

\* the branch a datagram takes: that of its message, or "undecodable"
\* when data.decode('utf-8') raises
DatagramKind(data) ==
    IF Received(data).ok THEN KindOf(Received(data).val) ELSE "undecodable"

\* the text a datagram carries when it is a decodable clipboard frame
ClipText(data) ==
    LET m == Received(data)
    IN  IF m.ok /\ KindOf(m.val) = "clipboard" THEN Content(m.val) ELSE Raised

(***************************************************************************)
(* _listen_loop.                                                           *)
(***************************************************************************)
\* a loop head that would not look at self.running
ListenTopForever(n) ==
    /\ listenPc[n] = "top"
    /\ listenPc' = [listenPc EXCEPT ![n] = "recv"]
    /\ handled' = NoneHandled
    /\ sent' = {}
    /\ printed' = <<>>
    /\ UNCHANGED <<ctlVars, clipVars, discovered_devices, now, net, rx,
                   monitorVars, hbVars, histVars>>

\* while self.running
ListenTop(n) ==
    /\ listenPc[n] = "top"
    /\ listenPc' = [listenPc EXCEPT ![n] = IF running[n] THEN "recv" ELSE "done"]
    /\ handled' = NoneHandled
    /\ sent' = {}
    /\ printed' = <<>>
    /\ UNCHANGED <<ctlVars, clipVars, discovered_devices, now, net, rx,
                   monitorVars, hbVars, histVars>>

\* recvfrom() ends with socket.timeout: continue
ListenTimeout(n) ==
    /\ listenPc[n] = "recv"
    /\ listenPc' = [listenPc EXCEPT ![n] = "top"]
    /\ handled' = NoneHandled
    /\ sent' = {}
    /\ printed' = <<>>
    /\ UNCHANGED <<ctlVars, clipVars, discovered_devices, now, net, rx,
                   monitorVars, hbVars, histVars>>

\* a loop without the except Exception: the error of recvfrom() ends it
ListenErrorExits(n) ==
    /\ listenPc[n] = "recv"
    /\ listenPc' = [listenPc EXCEPT ![n] = "done"]
    /\ handled' = NoneHandled
    /\ sent' = {}
    /\ printed' = <<>>
    /\ UNCHANGED <<ctlVars, clipVars, discovered_devices, now, net, rx,
                   monitorVars, hbVars, histVars>>

\* recvfrom() raises (the socket was closed under it, or an OS error):
\* except Exception, logged "if self.running and self.verbose"
ListenError(n) ==
    /\ listenPc[n] = "recv"
    /\ listenPc' = [listenPc EXCEPT ![n] = "top"]
    /\ handled' = NoneHandled
    /\ sent' = {}
    /\ printed' = IF running[n] THEN Verbose(n, "listen_error", "recvfrom")
                  ELSE <<>>
    /\ UNCHANGED <<ctlVars, clipVars, discovered_devices, now, net, rx,
                   monitorVars, hbVars, histVars>>

\* recvfrom() returns the datagram (data, src); it is decoded and
\* dispatched.  taken: what the receive removes from the network.
ListenRecv(n, src, data, ok, taken) ==
    /\ listenPc[n] = "recv"
    /\ sock[n] = "open"
    /\ LET e == HandleDatagram(n, src, data, ok)
       IN  /\ discovered_devices' = [discovered_devices EXCEPT ![n] = e.devices]
           /\ handled' = [node |-> n, sender |-> src, kind |-> DatagramKind(data)]
           /\ sent' = e.sends
           /\ printed' = e.lines
           /\ net' = (net \ taken) \cup Delivered(e.sends)
           /\ listenPc' = [listenPc EXCEPT ![n] = e.next]
           /\ rx' = [rx EXCEPT ![n] =
                  IF e.next = "lock"
                  THEN [sender |-> src, content |-> ClipText(data).val]
                  ELSE NoFrame]
           /\ applyHist' = [applyHist EXCEPT ![n] =
                  IF /\ e.next = "lock"
                     /\ applyHist[n].stage = "first"
                     /\ applyHist[n].sender = src
                     /\ applyHist[n].content = ClipText(data).val
                  THEN [@ EXCEPT !.stage = "second"] ELSE NoApply]
    /\ UNCHANGED <<ctlVars, clipVars, now, monitorVars, hbVars, copied, hbSentAt,
                   lastText, pending, pollHist>>

\* _handle_clipboard: with self.clipboard_lock: if content !=
\* self.last_clipboard: self.last_clipboard = content
ListenLock(n) ==
    /\ listenPc[n] = "lock"
    /\ clipboard_lock[n] = "free"
    /\ IF rx[n].content # last_clipboard[n]
       THEN /\ last_clipboard' = [last_clipboard EXCEPT ![n] = rx[n].content]
            /\ clipboard_lock' = [clipboard_lock EXCEPT ![n] = "listen"]
            /\ listenPc' = [listenPc EXCEPT ![n] = "copy"]
            /\ pollHist' = [pollHist EXCEPT ![n] = "none"]
            /\ UNCHANGED rx
       ELSE /\ listenPc' = [listenPc EXCEPT ![n] = "top"]
            /\ rx' = [rx EXCEPT ![n] = NoFrame]
            /\ UNCHANGED <<last_clipboard, clipboard_lock, pollHist>>
    /\ handled' = NoneHandled
    /\ sent' = {}
    /\ printed' = <<>>
    /\ UNCHANGED <<ctlVars, discovered_devices, clip, now, net, monitorVars,
                   hbVars, copied, hbSentAt, lastText, pending, applyHist>>

\* pyperclip.copy(content); when it raises, the with block releases the
\* lock and the handler's except logs
ListenCopy(n, ok) ==
    /\ listenPc[n] = "copy"
    /\ IF ok
       THEN /\ clip' = [clip EXCEPT ![n] = rx[n].content]
            /\ lastText' = [lastText EXCEPT ![n] =
                   [some |-> TRUE, text |-> rx[n].content]]
            /\ listenPc' = [listenPc EXCEPT ![n] = "ack"]
            /\ printed' = <<>>
            /\ UNCHANGED <<clipboard_lock, rx>>
       ELSE /\ clipboard_lock' = [clipboard_lock EXCEPT ![n] = "free"]
            /\ listenPc' = [listenPc EXCEPT ![n] = "top"]
            /\ rx' = [rx EXCEPT ![n] = NoFrame]
            /\ printed' = Verbose(n, "clipboard_error", "copy")
            /\ UNCHANGED <<clip, lastText>>
    /\ handled' = NoneHandled
    /\ sent' = {}
    /\ UNCHANGED <<ctlVars, last_clipboard, discovered_devices, now, net,
                   monitorVars, hbVars, copied, hbSentAt, pending, applyHist,
                   pollHist>>

\* self._send_to(ACK_PREFIX + "RECEIVED", sender), the "received" line,
\* and the end of the with block
ListenAck(n, ok) ==
    /\ listenPc[n] = "ack"
    /\ handled' = NoneHandled
    /\ LET r == _send_to(n, ACK_PREFIX \o AckReceived, rx[n].sender, ok)
       IN  /\ sent' = r.sends
           /\ printed' = r.lines \o <<Line(n, "received", rx[n].sender)>>
           /\ net' = net \cup Delivered(r.sends)
           /\ applyHist' = [applyHist EXCEPT ![n] =
                  IF r.sends # {} /\ applyHist[n].stage = "none"
                  THEN [stage |-> "first", sender |-> rx[n].sender,
                        content |-> rx[n].content]
                  ELSE applyHist[n]]
    /\ clipboard_lock' = [clipboard_lock EXCEPT ![n] = "free"]
    /\ listenPc' = [listenPc EXCEPT ![n] = "top"]
    /\ rx' = [rx EXCEPT ![n] = NoFrame]
    /\ UNCHANGED <<ctlVars, last_clipboard, discovered_devices, clip, now,
                   monitorVars, hbVars, copied, hbSentAt, lastText, pending,
                   pollHist>>

(***************************************************************************)
(* _clipboard_monitor_loop.                                                *)
(***************************************************************************)
\* while self.running (reached after time.sleep(0.5), or time.sleep(1)
\* in the except branch)
MonitorTop(n) ==
    /\ monitorPc[n] = "top"
    /\ monitorPc' = [monitorPc EXCEPT ![n] = IF running[n] THEN "paste" ELSE "done"]
    /\ handled' = NoneHandled
    /\ sent' = {}
    /\ printed' = <<>>
    /\ UNCHANGED <<ctlVars, clipVars, discovered_devices, now, net,
                   listenVars, current, hbVars, histVars>>

\* current = pyperclip.paste(), read before the lock is taken; when it
\* raises, the loop's except logs and sleeps
MonitorPaste(n, ok) ==
    /\ monitorPc[n] = "paste"
    /\ IF ok
       THEN /\ current' = [current EXCEPT ![n] = clip[n]]
            /\ monitorPc' = [monitorPc EXCEPT ![n] = "lock"]
            /\ pollHist' = [pollHist EXCEPT ![n] =
                   IF pollHist[n] \in {"checked", "again"}
                      /\ clip[n] = current[n]
                   THEN "same" ELSE "none"]
            /\ printed' = <<>>
       ELSE /\ monitorPc' = [monitorPc EXCEPT ![n] = "top"]
            /\ pollHist' = [pollHist EXCEPT ![n] = "none"]
            /\ printed' = Verbose(n, "monitor_error", "paste")
            /\ UNCHANGED current
    /\ handled' = NoneHandled
    /\ sent' = {}
    /\ UNCHANGED <<ctlVars, clipVars, discovered_devices, now, net,
                   listenVars, hbVars, copied, hbSentAt, lastText, pending,
                   applyHist>>

\* a test that would not compare with the snapshot
ChangedAlways(cur, snapshot) ==
    cur # <<>>

\* a test that would not look whether current is empty
ChangedOrEmpty(cur, snapshot) ==
    cur # snapshot

\* if current and current != self.last_clipboard
Changed(cur, snapshot) ==
    cur # <<>> /\ cur # snapshot

\* with self.clipboard_lock: if current and current !=
\* self.last_clipboard: self.last_clipboard = current
MonitorLock(n) ==
    /\ monitorPc[n] = "lock"
    /\ clipboard_lock[n] = "free"
    /\ IF Changed(current[n], last_clipboard[n])
       THEN /\ last_clipboard' = [last_clipboard EXCEPT ![n] = current[n]]
            /\ clipboard_lock' = [clipboard_lock EXCEPT ![n] = "monitor"]
            /\ monitorPc' = [monitorPc EXCEPT ![n] = "bcast"]
       ELSE /\ monitorPc' = [monitorPc EXCEPT ![n] = "top"]
            /\ UNCHANGED <<last_clipboard, clipboard_lock>>
    /\ pollHist' = [pollHist EXCEPT ![n] =
           IF pollHist[n] = "same" THEN "again" ELSE "checked"]
    /\ handled' = NoneHandled
    /\ sent' = {}
    /\ printed' = <<>>
    /\ UNCHANGED <<ctlVars, discovered_devices, clip, now, net, listenVars,
                   current, hbVars, copied, hbSentAt, lastText, pending, applyHist>>

_broadcast_clipboard(n, content, ok) ==
    LET encoded == Utf8Decode(B64Encode(Utf8Encode(content))).val
        message == CLIPBOARD_PREFIX \o encoded
        r == _broadcast(n, message, ok)
    IN  [sends |-> r.sends, lines |-> r.lines \o <<Line(n, "sent", content)>>]

\* self._broadcast_clipboard(current) and the end of the with block
MonitorBroadcast(n, ok) ==
    /\ monitorPc[n] = "bcast"
    /\ handled' = NoneHandled
    /\ LET r == _broadcast_clipboard(n, current[n], ok)
       IN  /\ sent' = r.sends
           /\ printed' = r.lines
           /\ net' = net \cup Delivered(r.sends)
           /\ pending' = [pending EXCEPT ![n] =
                  IF r.sends # {} /\ current[n] = pending[n] THEN <<>>
                  ELSE pending[n]]
           /\ lastText' = [lastText EXCEPT ![n] =
                  IF r.sends # {} THEN [some |-> TRUE, text |-> current[n]]
                  ELSE lastText[n]]
    /\ clipboard_lock' = [clipboard_lock EXCEPT ![n] = "free"]
    /\ monitorPc' = [monitorPc EXCEPT ![n] = "top"]
    /\ UNCHANGED <<ctlVars, last_clipboard, discovered_devices, clip, now,
                   listenVars, current, hbVars, copied, hbSentAt, applyHist,
                   pollHist>>

(***************************************************************************)
(* _heartbeat_loop and _cleanup_stale_devices.                             *)
(***************************************************************************)
\* while self.running (the clock of the model stops at horizon, and the
\* loop with it)
HbTop(n, horizon) ==
    /\ hbPc[n] = "top"
    /\ running[n] => now < horizon
    /\ hbPc' = [hbPc EXCEPT ![n] = IF running[n] THEN "bcast" ELSE "done"]
    /\ handled' = NoneHandled
    /\ sent' = {}
    /\ printed' = <<>>
    /\ UNCHANGED <<ctlVars, clipVars, discovered_devices, now, net,
                   listenVars, monitorVars, hbNow, hbUsed, stale_devices,
                   hbWake, histVars>>

\* self._broadcast(HEARTBEAT_MESSAGE)
HbBroadcast(n, ok) ==
    /\ hbPc[n] = "bcast"
    /\ handled' = NoneHandled
    /\ LET r == _broadcast(n, HEARTBEAT_MESSAGE, ok)
       IN  /\ sent' = r.sends
           /\ printed' = r.lines
           /\ net' = net \cup Delivered(r.sends)
           /\ hbSentAt' = [hbSentAt EXCEPT ![n] =
                  IF r.sends # {} THEN now ELSE hbSentAt[n]]
    /\ hbPc' = [hbPc EXCEPT ![n] = "scan"]
    /\ UNCHANGED <<ctlVars, clipVars, discovered_devices, now, listenVars,
                   monitorVars, hbNow, hbUsed, stale_devices, hbWake,
                   copied, lastText, pending, applyHist, pollHist>>

\* a scan that would take the timeout itself as stale
StaleAtInclusive(devices, t) ==
    {a \in DOMAIN devices : t - devices[a].last_seen >= StaleTimeout}

\* the addresses whose device is stale at time t
StaleAt(devices, t) ==
    {a \in DOMAIN devices : t - devices[a].last_seen > StaleTimeout}

\* now = datetime.now(), and self.discovered_devices.items() begins the
\* iteration of the list comprehension of _cleanup_stale_devices
HbScan(n) ==
    /\ hbPc[n] = "scan"
    /\ hbNow' = [hbNow EXCEPT ![n] = now]
    /\ hbUsed' = [hbUsed EXCEPT ![n] = Cardinality(DOMAIN discovered_devices[n])]
    /\ hbPc' = [hbPc EXCEPT ![n] = "iter"]
    /\ handled' = NoneHandled
    /\ sent' = {}
    /\ printed' = <<>>
    /\ UNCHANGED <<ctlVars, clipVars, discovered_devices, now, net,
                   listenVars, monitorVars, stale_devices, hbWake, histVars>>

\* the list comprehension iterates the table, which no lock protects: when
\* _handle_device_response has inserted a device since the iteration
\* began, the dict iterator raises RuntimeError (dictionary changed size
\* during iteration), which the except of _heartbeat_loop logs before the
\* loop goes on, without its time.sleep(30); otherwise the stale
\* addresses are collected
HbIter(n) ==
    /\ hbPc[n] = "iter"
    /\ IF Cardinality(DOMAIN discovered_devices[n]) # hbUsed[n]
       THEN /\ hbPc' = [hbPc EXCEPT ![n] = "top"]
            /\ hbNow' = [hbNow EXCEPT ![n] = 0]
            /\ printed' = Verbose(n, "heartbeat_error", "cleanup")
            /\ UNCHANGED stale_devices
       ELSE /\ stale_devices' = [stale_devices EXCEPT ![n] =
                     StaleAt(discovered_devices[n], hbNow[n])]
            /\ hbPc' = [hbPc EXCEPT ![n] = "pop"]
            /\ printed' = <<>>
            /\ UNCHANGED hbNow
    /\ hbUsed' = [hbUsed EXCEPT ![n] = 0]
    /\ handled' = NoneHandled
    /\ sent' = {}
    /\ UNCHANGED <<ctlVars, clipVars, discovered_devices, now, net,
                   listenVars, monitorVars, hbWake, histVars>>

\* the lines "Device disconnected: {device.name}" for the addresses popped
RECURSIVE DisconnectedLines(_, _, _)
DisconnectedLines(n, devices, addrs) ==
    IF addrs = {} THEN <<>>
    ELSE LET a == CHOOSE x \in addrs : TRUE
         IN  <<Line(n, "disconnected", devices[a].name)>>
             \o DisconnectedLines(n, devices, addrs \ {a})

\* for addr in stale_devices: self.discovered_devices.pop(addr, None)
PopStale(devices, stale) ==
    [a \in DOMAIN devices \ stale |-> devices[a]]

\* the for loop of _cleanup_stale_devices, then time.sleep(30) begins
HbPop(n) ==
    /\ hbPc[n] = "pop"
    /\ LET old == discovered_devices[n]
           popped == stale_devices[n] \cap DOMAIN old
       IN  /\ discovered_devices' =
                  [discovered_devices EXCEPT ![n] = PopStale(old, stale_devices[n])]
           /\ printed' = DisconnectedLines(n, old, popped)
    /\ hbNow' = [hbNow EXCEPT ![n] = 0]
    /\ stale_devices' = [stale_devices EXCEPT ![n] = {}]
    /\ hbWake' = [hbWake EXCEPT ![n] = now + HeartbeatInterval]
    /\ UNCHANGED hbUsed
    /\ hbPc' = [hbPc EXCEPT ![n] = "sleep"]
    /\ handled' = NoneHandled
    /\ sent' = {}
    /\ UNCHANGED <<ctlVars, clipVars, now, net, listenVars, monitorVars,
                   histVars>>

\* time.sleep(30) returns
HbWake(n) ==
    /\ hbPc[n] = "sleep"
    /\ now >= hbWake[n]
    /\ hbWake' = [hbWake EXCEPT ![n] = 0]
    /\ hbPc' = [hbPc EXCEPT ![n] = "top"]
    /\ handled' = NoneHandled
    /\ sent' = {}
    /\ printed' = <<>>
    /\ UNCHANGED <<ctlVars, clipVars, discovered_devices, now, net,
                   listenVars, monitorVars, hbNow, hbUsed, stale_devices,
                   histVars>>

(***************************************************************************)
(* The environment: the user, the clock, the network.                      *)
(***************************************************************************)
\* the user copies a text on node n
UserCopy(n, t) ==
    /\ running[n]
    /\ t # clip[n]
    /\ clip' = [clip EXCEPT ![n] = t]
    /\ copied' = TRUE
    /\ pending' = [pending EXCEPT ![n] = t]
    /\ applyHist' = [applyHist EXCEPT ![n] = NoApply]
    /\ handled' = NoneHandled
    /\ sent' = {}
    /\ printed' = <<>>
    /\ UNCHANGED <<ctlVars, last_clipboard, clipboard_lock,
                   discovered_devices, now, net, listenVars, monitorVars,
                   hbVars, hbSentAt, lastText, pollHist>>

\* time passes: up to horizon, and beyond it for as long as a thread
\* sleeps
Tick(horizon) ==
    /\ \/ now + TickStep <= horizon
       \/ \E n \in Nodes : hbPc[n] = "sleep" /\ hbWake[n] > now
    /\ now' = now + TickStep
    /\ handled' = NoneHandled
    /\ sent' = {}
    /\ printed' = <<>>
    /\ UNCHANGED <<ctlVars, clipVars, discovered_devices, net, listenVars,
                   monitorVars, hbVars, histVars>>

\* the network loses a datagram
Lose(d) ==
    /\ d \in net
    /\ net' = net \ {d}
    /\ handled' = NoneHandled
    /\ sent' = {}
    /\ printed' = <<>>
    /\ UNCHANGED <<ctlVars, clipVars, discovered_devices, now, listenVars,
                   monitorVars, hbVars, histVars>>

\* recvfrom() returns a datagram that was in flight to node n
ListenRecvNet(n, d, ok) ==
    /\ d \in net
    /\ d.dst = n
    /\ ListenRecv(n, d.src, d.data, ok, {d})

\* recvfrom() returns a datagram a device has just sent
ListenRecvFrom(n, src, data, ok) ==
    ListenRecv(n, src, data, ok, {})

(***************************************************************************)
(* The threads, and the specifications.                                    *)
(***************************************************************************)
\* the outcomes of sendto() that matter when a datagram is dispatched:
\* only _respond_to_discovery sends before the dispatch returns
SendOutcomes(data) ==
    IF Received(data).ok /\ KindOf(Received(data).val) = "discover"
    THEN BOOLEAN ELSE {TRUE}

\* whether the calls of the clipboard and of sendto() may fail
Reliable ==
    {TRUE}
Unreliable ==
    BOOLEAN

\* the steps of the _listen_loop thread of node n up to the dispatch of a
\* datagram, where the phone may send any of frames and the tablet any of
\* others, and the calls of sendto() end as one of oks
ListenDispatch(n, frames, others, oks) ==
    \/ ListenTop(n)
    \/ ListenTimeout(n)
    \/ ListenError(n)
    \/ \E d \in net : \E ok \in SendOutcomes(d.data) \cap oks :
           ListenRecvNet(n, d, ok)
    \/ \E data \in frames : \E ok \in SendOutcomes(data) \cap oks :
           ListenRecvFrom(n, Phone, data, ok)
    \/ \E data \in others : ListenRecvFrom(n, Tablet, data, TRUE)

\* all the steps of the thread: those, and the locked part of
\* _handle_clipboard, where the calls of the clipboard and of sendto() end
\* as one of oks
ListenThread(n, frames, others, oks) ==
    \/ ListenDispatch(n, frames, others, oks)
    \/ ListenLock(n)
    \/ \E ok \in oks : ListenCopy(n, ok)
    \/ \E ok \in oks : ListenAck(n, ok)

MonitorThread(n, oks) ==
    \/ MonitorTop(n)
    \/ \E ok \in oks : MonitorPaste(n, ok)
    \/ MonitorLock(n)
    \/ \E ok \in oks : MonitorBroadcast(n, ok)

HeartbeatThread(n, horizon) ==
    \/ HbTop(n, horizon)
    \/ \E ok \in BOOLEAN : HbBroadcast(n, ok)
    \/ HbScan(n)
    \/ HbIter(n)
    \/ HbPop(n)
    \/ HbWake(n)

\* clipboard synchronisation on node A: the phone sends clipboard frames
\* (two of them malformed) and acknowledgements, the user copies texts,
\* the calls of the clipboard and of sendto() succeed
SyncFrames ==
    ClipFrames \cup {AckFrame}

Next ==
    \/ \E v \in BOOLEAN, t \in Texts : Start("A", v, t)
    \/ ListenThread("A", SyncFrames, {}, Reliable)
    \/ MonitorThread("A", Reliable)
    \/ \E t \in Texts : UserCopy("A", t)
    \/ \E d \in net : Lose(d)

Spec ==
    Init /\ [][Next]_vars

\* the same with a user who copies nothing after the node has started
NextQuiet ==
    \/ \E v \in BOOLEAN, t \in Texts : Start("A", v, t)
    \/ ListenThread("A", SyncFrames, {}, Reliable)
    \/ MonitorThread("A", Reliable)
    \/ \E d \in net : Lose(d)

SpecQuiet ==
    Init /\ [][NextQuiet]_vars

\* the peer table of node A: the phone announces itself in three ways and
\* sends heartbeats and acknowledgements but no clipboard payload, so that
\* the listen thread never enters the locked part of _handle_clipboard;
\* the tablet announces itself and
\* sends heartbeats, calls may fail, time passes, the heartbeat thread
\* cleans up
PeerFrames ==
    DeviceFrames \cup {Frame(HEARTBEAT_MESSAGE), AckFrame}

NextPeers ==
    \/ \E v \in BOOLEAN : Start("A", v, <<>>)
    \/ ListenDispatch("A", PeerFrames, TabletFrames, Unreliable)
    \/ HeartbeatThread("A", MaxTime)
    \/ Tick(MaxTime)
    \/ \E d \in net : Lose(d)

SpecPeers ==
    Init /\ [][NextPeers]_vars

\* the dispatch of node A: the phone sends a frame of every kind, among
\* them the two literals with a character after them, an acknowledgement
\* with another token and a datagram that is not UTF-8; sendto() may fail,
\* the clock advances once, the monitor thread broadcasts the text the
\* node started with
KindFrames ==
    LiteralFrames \cup {AckFrame, OtherAckFrame, BadFrame, ClipFrame(<<233>>),
                        Frame(DEVICE_PREFIX \o <<76, 124, 103>>)}

NextFrames ==
    \/ \E v \in BOOLEAN : Start("A", v, <<97>>)
    \/ ListenThread("A", KindFrames, {}, Unreliable)
    \/ MonitorThread("A", Reliable)
    \/ Tick(StopTime)

SpecFrames ==
    Init /\ [][NextFrames]_vars

\* the whole daemon on node A, verbose so that every logged error shows,
\* with calls that may fail, stopped at any moment, each thread and the
\* clock scheduled fairly
StopFrames ==
    {ClipFrame(<<97>>), BadFrame}

NextStop ==
    \/ Start("A", TRUE, <<97>>)
    \/ ListenThread("A", StopFrames, {}, Unreliable)
    \/ MonitorThread("A", Unreliable)
    \/ HeartbeatThread("A", StopTime)
    \/ StopFlag("A")
    \/ StopClose("A")
    \/ Tick(StopTime)

SpecStop ==
    /\ Init
    /\ [][NextStop]_vars
    /\ WF_vars(ListenThread("A", StopFrames, {}, Unreliable))
    /\ WF_vars(MonitorThread("A", Unreliable))
    /\ WF_vars(HeartbeatThread("A", StopTime))
    /\ WF_vars(Tick(StopTime))


\* two nodes on one segment, each started with the text "e-acute" on its
\* clipboard: the start of the two and their first exchange, in which
\* each broadcasts that text and drops the other's copy of it; every call
\* succeeds, no datagram is lost
PairOld ==
    <<233>>
PairNew ==
    <<97>>

NextSettle ==
    \/ \E n \in Nodes : Start(n, FALSE, PairOld)
    \/ \E n \in Nodes : ListenThread(n, {}, {}, Reliable)
    \/ \E n \in Nodes : MonitorThread(n, Reliable)

SpecSettle ==
    Init /\ [][NextSettle]_vars

\* the state in which that exchange ends: both nodes run, both
\* clipboards and snapshots hold the text, every datagram was received,
\* the listen and poll loops are at their heads
PairSettled ==
    /\ running = [n \in Nodes |-> TRUE]
    /\ sock = [n \in Nodes |-> "open"]
    /\ verbose = [n \in Nodes |-> FALSE]
    /\ last_clipboard = [n \in Nodes |-> PairOld]
    /\ clipboard_lock = [n \in Nodes |-> "free"]
    /\ discovered_devices = [n \in Nodes |-> NoDevices]
    /\ clip = [n \in Nodes |-> PairOld]
    /\ now = 0
    /\ net = {}
    /\ listenPc = [n \in Nodes |-> "top"]
    /\ rx = [n \in Nodes |-> NoFrame]
    /\ monitorPc = [n \in Nodes |-> "top"]
    /\ current = [n \in Nodes |-> PairOld]
    /\ hbPc = [n \in Nodes |-> "top"]
    /\ hbNow = [n \in Nodes |-> 0]
    /\ hbUsed = [n \in Nodes |-> 0]
    /\ stale_devices = [n \in Nodes |-> {}]
    /\ hbWake = [n \in Nodes |-> 0]
    /\ sent = {}
    /\ printed = <<>>
    /\ handled = NoneHandled
    /\ copied = FALSE
    /\ hbSentAt = [n \in Nodes |-> -1]
    /\ lastText = [n \in Nodes |-> [some |-> TRUE, text |-> PairOld]]
    /\ pending = [n \in Nodes |-> <<>>]
    /\ applyHist = [n \in Nodes |-> NoApply]
    /\ pollHist = [n \in Nodes |-> "checked"]

\* from there, the user copies "a" on node A, once; every queued datagram
\* is received, and the listen and poll loops of both nodes keep running
ListenSteps(n) ==
    ListenTop(n) \/ ListenLock(n) \/ ListenCopy(n, TRUE) \/ ListenAck(n, TRUE)

ListenDelivery(n) ==
    \E d \in net : ListenRecvNet(n, d, TRUE)

\* a thread is inside a handler: the listen thread in _handle_clipboard
\* past the decoding, the poll loop holding the lock
Busy ==
    \E n \in Nodes : listenPc[n] \in {"lock", "copy", "ack"} \/ monitorPc[n] = "bcast"

\* one of the schedules of the two nodes: a handler that has begun runs to
\* its end before any thread begins another step, and a queued datagram
\* is received before a poll loop or the user takes a step
NextPair ==
    \/ \E n \in Nodes : ListenLock(n) \/ ListenCopy(n, TRUE) \/ ListenAck(n, TRUE)
    \/ \E n \in Nodes : MonitorBroadcast(n, TRUE)
    \/ ~Busy /\ \E n \in Nodes : ListenTop(n) \/ ListenDelivery(n)
    \/ ~Busy /\ net = {}
             /\ \E n \in Nodes : MonitorTop(n) \/ MonitorPaste(n, TRUE) \/ MonitorLock(n)
    \/ ~Busy /\ net = {} /\ ~copied /\ UserCopy("A", PairNew)

SpecPair ==
    /\ PairSettled
    /\ [][NextPair]_vars
    /\ \A n \in Nodes :
           /\ SF_vars(ListenSteps(n) \/ ListenDelivery(n))
           /\ SF_vars(MonitorThread(n, Reliable))
(***************************************************************************)
(* The claims.                                                             *)
(***************************************************************************)
ClipFrameOf ==
    [t \in Texts |-> ClipFrame(t)]

\* the clipboard payloads among the datagrams a step broadcasts
ClipBroadcasts(sends) ==
    {d \in sends : d.dst = BroadcastAddr
                   /\ StartsWith(d.data, Frame(CLIPBOARD_PREFIX))}

\* the lines with a tag that node n printed in the last step
Printed(n, tag) ==
    {i \in 1..Len(printed) : printed[i].node = n /\ printed[i].tag = tag}

\* node n receives data from the phone and dispatches it, in this step
Handles(n, data) ==
    \E ok \in BOOLEAN : ListenRecvFrom(n, Phone, data, ok)

\* C1: on a node whose user copies nothing after the start, the only
\* clipboard payload the node ever broadcasts is the text its clipboard
\* held at the start, as long as that text was not broadcast yet: it
\* never broadcasts a text that a remote payload put on its clipboard, nor
\* again the text it has broadcast before.
C1_NoBroadcastAfterApply ==
    [][\A d \in ClipBroadcasts(sent') :
           d.data = ClipFrameOf[pending[d.src]]]_vars

\* C2: once a clipboard frame was applied (written and acknowledged), the
\* same text from the same sender as the very next frame, with no local
\* change in between, is not written to the clipboard a second time.
C2_SecondFrameDropped ==
    \A n \in Nodes : applyHist[n].stage = "second" => listenPc[n] # "ack"

\* C3: when an iteration of the poll loop has read the same text as the
\* iteration before it and no remote payload was applied in between, its
\* comparison sends nothing, leaves the snapshot unchanged and ends the
\* iteration; and whenever the loop broadcasts a clipboard payload, the
\* snapshot already holds the broadcast text, under the lock.
C3_DedupBroadcast ==
    [][/\ \A n \in Nodes :
              pollHist[n] = "same" /\ monitorPc[n] = "lock"
                                   /\ monitorPc'[n] # "lock"
              => /\ monitorPc'[n] = "top"
                 /\ last_clipboard'[n] = last_clipboard[n]
                 /\ sent' = {}
       /\ \A d \in ClipBroadcasts(sent') :
              /\ d.data = ClipFrameOf[last_clipboard[d.src]]
              /\ clipboard_lock[d.src] = "monitor"]_vars

\* a second iteration that read again a text the first has broadcast has
\* made its comparison
C3_Witness ==
    \E n \in Nodes : /\ pollHist[n] = "again"
                     /\ monitorPc[n] = "top"
                     /\ current[n] # <<>>
                     /\ pending[n] = <<>>
                     /\ last_clipboard[n] = current[n]

\* C4: a node never writes to its clipboard a text that arrived in a
\* datagram the node itself has sent.
C4_NoSelfApply ==
    \A n \in Nodes : ~(listenPc[n] = "ack" /\ rx[n].sender = n)

\* the frames of the five kinds, well formed
FiveKinds ==
    {Frame(DISCOVERY_MESSAGE), Frame(DEVICE_PREFIX \o <<76, 124, 103>>),
     ClipFrame(<<97>>), AckFrame, Frame(HEARTBEAT_MESSAGE)}

\* C5: handling a frame of any of the five kinds from the phone, when the
\* phone is in the peer table, sets the last_seen of the phone to the
\* current time (stated of a verbose node, where no handling passes
\* unnoticed).
C5_RefreshOnAnyFrame ==
    [][\A n \in Nodes : \A data \in FiveKinds :
           /\ verbose[n]
           /\ Phone \in DOMAIN discovered_devices[n]
           /\ Handles(n, data)
           => discovered_devices'[n][Phone].last_seen = now]_vars

\* the position of the first '|' of s
FirstPipe(s) ==
    CHOOSE i \in 1..Len(s) :
        s[i] = Pipe[1] /\ \A j \in 1..(i - 1) : s[j] # Pipe[1]

\* C6: handling the announcement DEVICE_PREFIX + platform + '|' + name
\* from the phone leaves the phone in the peer table with the text before
\* the first '|' as platform and all the text after it as name.
C6_AnnounceRoundTrip ==
    [][\A n \in Nodes : \A data \in DeviceFrames :
           LET body == After(Received(data).val, DEVICE_PREFIX)
           IN  (\E i \in 1..Len(body) : body[i] = Pipe[1]) /\ Handles(n, data)
               => LET d == discovered_devices'[n][Phone]
                  IN  /\ d.platform = SubSeq(body, 1, FirstPipe(body) - 1)
                      /\ d.name = SubSeq(body, FirstPipe(body) + 1, Len(body))]_vars

\* C7: the scan of the cleanup, when it completes, takes for stale exactly
\* the peers with now - last_seen > 120; and when the table still is as
\* the scan saw it, the removal takes exactly those peers out of the table, prints one
\* "disconnected" line for each of them and no other line, and leaves
\* every other peer as it was.
C7_StaleEviction ==
    [][\A n \in Nodes :
        LET devices == discovered_devices[n]
            late(t) == {a \in DOMAIN devices : t - devices[a].last_seen > 120}
        IN  /\ hbPc[n] = "iter" /\ hbPc'[n] = "pop"
               => stale_devices'[n] = late(hbNow[n])
            /\ hbPc[n] = "pop" /\ hbPc'[n] = "sleep"
                   /\ stale_devices[n] = late(hbNow[n])
               => /\ DOMAIN discovered_devices'[n] = DOMAIN devices \ late(hbNow[n])
                  /\ \A a \in DOMAIN discovered_devices'[n] :
                         /\ hbNow[n] - devices[a].last_seen <= 120
                         /\ discovered_devices'[n][a] = devices[a]
                  /\ Len(printed') = Cardinality(late(hbNow[n]))
                  /\ \A a \in late(hbNow[n]) :
                         \E i \in 1..Len(printed') :
                             printed'[i] = Line(n, "disconnected", devices[a].name)]_vars

\* a cleanup has removed one peer and kept another
C7_Witness ==
    \E n \in Nodes : /\ hbPc[n] = "sleep"
                     /\ Printed(n, "disconnected") # {}
                     /\ DOMAIN discovered_devices[n] # {}

\* C8: handling a clipboard frame whose body is not base64, or is not
\* UTF-8 once decoded, leaves the clipboard, the snapshot, the lock and
\* the peer table as they were, sends nothing, and takes the receive loop
\* back to its head.
C8_MalformedPayload ==
    [][\A n \in Nodes : \A data \in BadClipFrames :
           Handles(n, data)
           => /\ clip' = clip
              /\ last_clipboard' = last_clipboard
              /\ clipboard_lock' = clipboard_lock
              /\ discovered_devices' = discovered_devices
              /\ sent' = {}
              /\ listenPc'[n] = "top"]_vars

\* a malformed clipboard frame was handled (and logged, the node being
\* verbose) by a running node
C8_Witness ==
    \E n \in Nodes : /\ running[n]
                     /\ listenPc[n] = "top"
                     /\ \E i \in Printed(n, "clipboard_error") :
                            printed[i].arg = "decode"

\* the tags of the lines that log an error of the receive loop or of one
\* of its handlers
ListenErrorTags ==
    {"listen_error", "clipboard_error", "send_error"}

\* C9: the receive loop has not ended while the running flag is set; a
\* step in which it logs an error takes it back to its head; and it never
\* waits for a frame, or for the lock, while holding the lock.
C9_HandlerIsolation ==
    \A n \in Nodes :
        /\ running[n] => listenPc[n] # "done"
        /\ (\E tag \in ListenErrorTags : Printed(n, tag) # {})
               => listenPc[n] = "top"
        /\ listenPc[n] \in {"top", "recv", "lock", "done"}
               => clipboard_lock[n] # "listen"

\* the loop waits for the next frame after a clipboard write has failed
C9_Witness ==
    \E n \in Nodes : /\ running[n]
                     /\ listenPc[n] = "top"
                     /\ clipboard_lock[n] = "free"
                     /\ \E i \in Printed(n, "clipboard_error") :
                            printed[i].arg = "copy"

\* C10: once stop() has closed the socket, all three loops eventually
\* have ended; and a node whose running flag is cleared logs no receive
\* error.
C10_OrderlyShutdown ==
    /\ \A n \in Nodes :
           sock[n] = "closed"
               ~> (listenPc[n] = "done" /\ monitorPc[n] = "done"
                                        /\ hbPc[n] = "done")
    /\ [](\A n \in Nodes : Printed(n, "listen_error") # {} => running[n])

\* the socket is closed and the three loops have ended
C10_Witness ==
    \E n \in Nodes : /\ sock[n] = "closed"
                     /\ listenPc[n] = "done"
                     /\ monitorPc[n] = "done"
                     /\ hbPc[n] = "done"

\* C11: handling a Heartbeat frame sends nothing; when the sender has no
\* entry in the peer table, the table stays as it was (no entry is
\* created); when it has one, that entry gets last_seen = now and keeps
\* its address, platform and name, and every other entry stays as it was.
C11_SilentHeartbeat ==
    [][\A n \in Nodes :
           handled'.node = n /\ handled'.kind = "heartbeat"
           => LET s == handled'.sender
                  old == discovered_devices[n]
                  new == discovered_devices'[n]
              IN  /\ sent' = {}
                  /\ s \notin DOMAIN old => new = old
                  /\ s \in DOMAIN old
                     => /\ DOMAIN new = DOMAIN old
                        /\ new[s] = [old[s] EXCEPT !.last_seen = now]
                        /\ \A a \in DOMAIN old \ {s} : new[a] = old[a]]_vars

\* a Heartbeat of the phone was handled while the phone and the tablet
\* were in the table, and it has moved the last_seen of the phone
C11_Witness ==
    /\ handled.kind = "heartbeat"
    /\ handled.sender = Phone
    /\ LET devices == discovered_devices[handled.node]
       IN  /\ DOMAIN devices = {Phone, Tablet}
           /\ devices[Phone].last_seen = now
           /\ devices[Tablet].last_seen < now
           /\ devices[Phone].name # <<>>

\* the announcement of node n, addressed to s
AnnounceTo(n, s) ==
    [src |-> n, dst |-> s,
     data |-> Frame(DEVICE_PREFIX \o PlatformLinux \o Pipe \o Hostname(n))]

\* C12: handling a Discover frame from sender s sends nothing but the
\* announcement of the local platform and hostname, addressed to s alone,
\* and sends exactly that datagram when sendto() succeeds; it sends no
\* broadcast, and leaves the peer table, the snapshot and the clipboard as
\* they were.
C12_DiscoveryResponder ==
    [][\A n \in Nodes :
           /\ handled'.node = n /\ handled'.kind = "discover"
              => /\ sent' \subseteq {AnnounceTo(n, handled'.sender)}
                 /\ \A d \in sent' : d.dst # BroadcastAddr
                 /\ discovered_devices'[n] = discovered_devices[n]
                 /\ last_clipboard'[n] = last_clipboard[n]
                 /\ clip'[n] = clip[n]
           /\ ListenRecvFrom(n, Phone, Frame(DISCOVERY_MESSAGE), TRUE)
              => sent' = {AnnounceTo(n, Phone)}]_vars

\* a Discover of the phone was answered with one datagram to the phone,
\* on a node with a peer in its table and a text in its snapshot
C12_Witness ==
    /\ handled.kind = "discover"
    /\ handled.sender = Phone
    /\ sent = {AnnounceTo(handled.node, Phone)}
    /\ discovered_devices[handled.node] # NoDevices
    /\ last_clipboard[handled.node] # <<>>

\* C13: every entry of the peer table is keyed by the address stored in it;
\* an address enters the table only in a step that handles an
\* announcement from that address; and handling a well-formed
\* announcement from the phone when the phone is in the table leaves the
\* table with the same addresses, the phone's entry holding the announced
\* platform (the text before the first '|') and the announced name (all
\* the text after it).
C13_PeerIdentity ==
    [][\A n \in Nodes :
           LET old == discovered_devices[n]
               new == discovered_devices'[n]
           IN  /\ \A a \in DOMAIN new : new[a].address = a
               /\ \A a \in DOMAIN new \ DOMAIN old :
                      /\ handled'.node = n
                      /\ handled'.kind = "device"
                      /\ handled'.sender = a
               /\ \A data \in DeviceFrames :
                      LET body == After(Received(data).val, DEVICE_PREFIX)
                      IN  /\ \E i \in 1..Len(body) : body[i] = Pipe[1]
                          /\ Phone \in DOMAIN old
                          /\ Handles(n, data)
                          => /\ DOMAIN new = DOMAIN old
                             /\ new[Phone].platform =
                                    SubSeq(body, 1, FirstPipe(body) - 1)
                             /\ new[Phone].name =
                                    SubSeq(body, FirstPipe(body) + 1, Len(body))]_vars

\* C14: a step prints a "discovered" line only when it puts in the peer
\* table an address that was not in it: handling an announcement from an
\* address that already has an entry prints no such line.
C14_DiscoveredOnce ==
    [][\A n \in Nodes :
           Printed(n, "discovered")' # {}
           => /\ handled'.node = n
              /\ handled'.kind = "device"
              /\ handled'.sender \notin DOMAIN discovered_devices[n]
              /\ handled'.sender \in DOMAIN discovered_devices'[n]]_vars

\* C15: the cleanup is not disturbed by the listen thread: every peer it
\* removes from the table has now - last_seen > 120 in the table at the
\* moment of the removal, and the iteration over the table, once begun,
\* completes (it does not raise).
C15_SerializedCleanup ==
    [][\A n \in Nodes :
           /\ hbPc[n] = "pop" /\ hbPc'[n] = "sleep"
              => \A a \in DOMAIN discovered_devices[n] \ DOMAIN discovered_devices'[n] :
                     now - discovered_devices[n][a].last_seen > StaleTimeout
           /\ hbPc[n] = "iter" /\ hbPc'[n] # "iter" => hbPc'[n] = "pop"]_vars


\* the Heartbeat broadcasts of node n among sends
HeartbeatBroadcasts(n, sends) ==
    {d \in sends : /\ d.src = n
                   /\ d.dst = BroadcastAddr
                   /\ d.data = Frame(HEARTBEAT_MESSAGE)}

\* C16: a node broadcasts a Heartbeat only from the head of a heartbeat
\* cycle, whose next step is the cleanup, and no sooner than the full
\* interval of 30 after its previous Heartbeat broadcast.
C16_HeartbeatCadence ==
    [][\A n \in Nodes :
           HeartbeatBroadcasts(n, sent') # {}
           => /\ hbPc[n] = "bcast" /\ hbPc'[n] = "scan"
              /\ hbSentAt[n] >= 0 => now - hbSentAt[n] >= HeartbeatInterval]_vars

\* C17: whenever the lock of the snapshot is free, the snapshot is empty
\* (its initial value) or is the text the node has most recently
\* broadcast as a clipboard payload or written to its clipboard.
C17_SnapshotMeaning ==
    \A n \in Nodes :
        clipboard_lock[n] = "free"
        => \/ last_clipboard[n] = <<>>
           \/ lastText[n].some /\ last_clipboard[n] = lastText[n].text

\* acknowledgements with two tokens, and the two literals with a character
\* after them, which are frames of none of the five kinds
IdleFrames ==
    {AckFrame, OtherAckFrame,
     Frame(DISCOVERY_MESSAGE \o <<88>>), Frame(HEARTBEAT_MESSAGE \o <<88>>)}

\* C18: handling an Ack frame, whatever its token, or a frame of none of
\* the five kinds leaves the snapshot, the clipboard and the peer table as
\* they were, sends nothing, prints no error (an Ack prints its own line
\* on a verbose node, and nothing else is printed), and the listen loop
\* goes on to its next iteration.
C18_AckAndUnknownIdle ==
    [][\A n \in Nodes : \A data \in IdleFrames :
           Handles(n, data)
           => /\ last_clipboard'[n] = last_clipboard[n]
              /\ clip'[n] = clip[n]
              /\ discovered_devices'[n] = discovered_devices[n]
              /\ sent' = {}
              /\ net' = net
              /\ listenPc'[n] = "top"
              /\ printed' = IF verbose[n] /\ StartsWith(Received(data).val, ACK_PREFIX)
                            THEN <<Line(n, "ack", Phone)>> ELSE <<>>]_vars

\* a frame of none of the five kinds was dispatched and nothing was
\* printed, on a verbose node with a peer in its table and a text
\* in its snapshot
C18_Witness ==
    /\ handled.kind = "unknown"
    /\ handled.sender = Phone
    /\ printed = <<>>
    /\ verbose[handled.node]
    /\ discovered_devices[handled.node] # NoDevices
    /\ last_clipboard[handled.node] # <<>>

\* C19: a poll iteration that has read an empty clipboard sends nothing at
\* its comparison, leaves the snapshot as it was and ends; no clipboard
\* payload that is broadcast carries the empty text; no step of the poll
\* loop makes the snapshot empty; and the listen thread, holding an empty
\* remote text while the snapshot is not empty, makes the snapshot empty
\* and then writes the empty text to the clipboard.
C19_EmptyNeverSent ==
    [][\A n \in Nodes :
           /\ monitorPc[n] = "lock" /\ monitorPc'[n] # "lock" /\ current[n] = <<>>
              => /\ monitorPc'[n] = "top"
                 /\ last_clipboard'[n] = last_clipboard[n]
                 /\ sent' = {}
           /\ \A d \in ClipBroadcasts(sent') : d.data # ClipFrameOf[<<>>]
           /\ monitorPc'[n] # monitorPc[n] /\ last_clipboard'[n] # last_clipboard[n]
              => last_clipboard'[n] # <<>>
           /\ listenPc[n] = "lock" /\ listenPc'[n] # "lock"
                  /\ rx[n].content = <<>> /\ last_clipboard[n] # <<>>
              => /\ last_clipboard'[n] = <<>>
                 /\ listenPc'[n] = "copy"
           /\ listenPc[n] = "copy" /\ listenPc'[n] # "copy" /\ rx[n].content = <<>>
              => clip'[n] = <<>>]_vars

\* the poll loop has read an empty clipboard and ended its iteration with
\* a snapshot that is not empty
C19_Witness ==
    \E n \in Nodes : /\ monitorPc[n] = "top"
                     /\ pollHist[n] # "none"
                     /\ current[n] = <<>>
                     /\ clip[n] = <<>>
                     /\ last_clipboard[n] # <<>>
                     /\ lastText[n].some

\* the clipboard payloads and acknowledgements among datagrams
SyncTraffic(ds) ==
    {d \in ds : \/ StartsWith(d.data, Frame(CLIPBOARD_PREFIX))
                \/ StartsWith(d.data, Frame(ACK_PREFIX))}

\* both clipboards and both snapshots hold the text the user copied, no
\* clipboard payload or acknowledgement is in flight and none was sent in
\* the last step
Converged ==
    /\ \A n \in Nodes : clip[n] = PairNew /\ last_clipboard[n] = PairNew
    /\ SyncTraffic(net) = {}
    /\ SyncTraffic(sent) = {}

\* C20: with two running nodes, reliable delivery and fair loops, once the
\* user has made the one change, to the text "a" on node A, the system
\* eventually reaches, and from then on stays in, a state where both
\* clipboards and both snapshots are "a" and no clipboard payload or
\* acknowledgement is in flight or is sent.
C20_Convergence ==
    <>[](copied => Converged)
====
